---- MODULE Spec2Model ----
(***************************************************************************)
(* Model of report_templates/static/js/report.js: the report renderer      *)
(* (renderReport), the evidence toggle (toggleEvidence) and the pie chart  *)
(* (drawSimpleChart), acting on the DOM of the report page.                *)
(*                                                                         *)
(* The DOM is the state: the text of each summary field, the rows of the   *)
(* findings table body, the painted content of the chart canvas, the items *)
(* of the recommendations list and the display style of its panel.         *)
(* Angles are measured in revolutions (the code's angle divided by         *)
(* 2 * Math.PI) and kept as reduced fractions <<num, den>>.                *)
(***************************************************************************)
EXTENDS Integers, Sequences, FiniteSets, TLC

\* ------------------------------------------------------------------ bounds

\* Longest findings sequence of one input report.
MaxFindings == 2
\* Largest value of stats.pass, of stats.fail and of a direct chart count.
MaxCount == 2
\* Most rows the table body holds (renderReport is not enabled beyond it).
MaxRows == 2
\* Most toggleEvidence calls of one run.
MaxToggles == 2

\* ------------------------------------------------------------------ inputs

\* The null / undefined payload.
Null == [null |-> TRUE]

\* Control ids of the sample findings: one the catalog maps, one it does not.
Ids == {"CC1.5", "CC6.1"}

Statuses == {"PASS", "FAIL"}

TypeOf(id) == IF id = "CC1.5" THEN "process" ELSE "code"

ControlOf(id) == IF id = "CC1.5" THEN "Commit signing" ELSE "Auth required"

EvidenceOf(id) == IF id = "CC1.5" THEN "{file: a.go}" ELSE "{file: b.go}"

Findings ==
    { [id |-> i, type |-> TypeOf(i), control |-> ControlOf(i),
       status |-> s, evidence |-> EvidenceOf(i)] : i \in Ids, s \in Statuses }

FindingSeqs == UNION { [1..n -> Findings] : n \in 0..MaxFindings }

Metadatas ==
    { [framework |-> "SOC2", files_scanned |-> 12,
       target_path |-> "/app", integrity_hash |-> "abc123"],
      [framework |-> "", files_scanned |-> 0,
       target_path |-> "", integrity_hash |-> ""] }

\* Counts whose total takes two digits.
TwoDigitStats == [pass |-> 7, fail |-> 5]

StatsSet == [pass : 0..MaxCount, fail : 0..MaxCount] \cup {TwoDigitStats}

CountOf(findings, status) ==
    Cardinality({ i \in 1..Len(findings) : findings[i].status = status })

\* Reports as the scanner writes them: the stats count the findings.
ScannerReports ==
    { [metadata |-> m,
       stats |-> [pass |-> CountOf(fs, "PASS"), fail |-> CountOf(fs, "FAIL")],
       findings |-> fs] : m \in { x \in Metadatas : x.framework = "SOC2" },
                          fs \in FindingSeqs }

\* Reports whose stats vary freely, whatever the findings say.
FreeReports ==
    [metadata : { x \in Metadatas : x.framework = "" },
     stats : StatsSet,
     findings : { fs \in FindingSeqs :
                    /\ Len(fs) <= 1
                    /\ \A i \in 1..Len(fs) :
                         fs[i].id = "CC6.1" /\ fs[i].status = "FAIL" }]

Reports == ScannerReports \cup FreeReports

\* The report "rendered" before any call: none.
NoReport ==
    [metadata |-> [framework |-> "", files_scanned |-> 0,
                   target_path |-> "", integrity_hash |-> ""],
     stats |-> [pass |-> 0, fail |-> 0],
     findings |-> << >>]

\* --------------------------------------------------------- the catalog

RECOMMENDATIONS_MAP ==
    [i \in {"CC1.5"} |->
        "Your latest commit is unsigned. To fix this: 1. gpg --full-generate-key 2. git config --global commit.gpgsign true 3. git commit --amend --no-edit -S"]

\* ------------------------------------------------- text of a summary field

Digit == [d \in 0..9 |-> CASE d = 0 -> "0" [] d = 1 -> "1" [] d = 2 -> "2"
                           [] d = 3 -> "3" [] d = 4 -> "4" [] d = 5 -> "5"
                           [] d = 6 -> "6" [] d = 7 -> "7" [] d = 8 -> "8"
                           [] OTHER -> "9"]

\* String(n) of a non-negative integer, as the sequence of its characters.
RECURSIVE NumberToString(_)
NumberToString(n) ==
    IF n < 10 THEN <<Digit[n]>>
    ELSE NumberToString(n \div 10) \o <<Digit[n % 10]>>

\* `n || '0'` assigned to textContent: a zero is falsy and yields the
\* placeholder, any other count its decimal text.
NumberOrZeroText(n) == IF n # 0 THEN NumberToString(n) ELSE <<"0">>

\* `s || placeholder` for a string field: the empty string is falsy.
StringOr(s, placeholder) == IF s # "" THEN s ELSE placeholder

PassCountText(stats) == NumberOrZeroText(stats.pass)

FailCountText(stats) == NumberOrZeroText(stats.fail)

TotalCountText_PassOnly(stats) == NumberOrZeroText(stats.pass)

\* `data.stats.pass + data.stats.fail || '0'`: the sum binds first.
TotalCountText(stats) == NumberOrZeroText(stats.pass + stats.fail)

OverallStatus_OffByOne(stats) == IF stats.fail > 1 THEN "FAIL" ELSE "PASS"

OverallStatus(stats) == IF stats.fail > 0 THEN "FAIL" ELSE "PASS"

ToLowerCase(s) == IF s = "FAIL" THEN "fail" ELSE "pass"

\* The span written into status-value.
StatusBadge(stats) ==
    [class |-> "status-" \o ToLowerCase(OverallStatus(stats)),
     text |-> OverallStatus(stats)]

\* ---------------------------------------------------------- table rows

Element(tag, id, text, display) ==
    [tag |-> tag, id |-> id, text |-> text, display |-> display]

ActionsCell_Always(finding) ==
    << Element("button", "", "Show Evidence", ""),
       Element("div", "details-" \o finding.id, finding.evidence, "") >>

\* The children of the row's last cell, in document order.
ActionsCell(finding) ==
    IF finding.status = "FAIL"
    THEN << Element("button", "", "Show Evidence", ""),
            Element("div", "details-" \o finding.id, finding.evidence, "") >>
    ELSE << Element("span", "", "N/A", "") >>

BuildRow(finding) ==
    [id |-> finding.id,
     type |-> finding.type,
     control |-> finding.control,
     statusClass |-> IF finding.status = "PASS" THEN "status-pass"
                                                ELSE "status-fail",
     statusText |-> finding.status,
     actions |-> ActionsCell(finding)]

\* The forEach over data.findings: one appendChild per finding.
AppendRows(rows, findings) ==
    rows \o [i \in 1..Len(findings) |-> BuildRow(findings[i])]

\* --------------------------------------------------------------- chart

RECURSIVE GCD(_, _)
GCD(a, b) == IF b = 0 THEN a ELSE GCD(b, a % b)

\* The quotient n / d (d > 0) as a reduced fraction.
Fraction(n, d) == << n \div GCD(n, d), d \div GCD(n, d) >>

FracAdd(a, b) == Fraction(a[1] * b[2] + b[1] * a[2], a[2] * b[2])

FracLess(a, b) == a[1] * b[2] < b[1] * a[2]

FracMin(a, b) == IF FracLess(a, b) THEN a ELSE b

FracMax(a, b) == IF FracLess(a, b) THEN b ELSE a

Zero == <<0, 1>>

\* One fill() of a closed path: centre, arc from `start` to `end`, centre.
Sector(start, end, fillStyle) ==
    [start |-> start, end |-> end, fillStyle |-> fillStyle]

ChartFills_FailOnlySpan(passCount, failCount) ==
    LET total == passCount + failCount
        startAngle == Zero
        passFraction == Fraction(passCount, total)
        failFraction == Fraction(failCount, total)
    IN  << Sector(startAngle, FracAdd(startAngle, passFraction), "#073b0f"),
           Sector(FracAdd(startAngle, passFraction),
                  FracAdd(startAngle, failFraction), "#8c1515") >>

\* The two fills drawSimpleChart makes once total is known to be non-zero.
ChartFills(passCount, failCount) ==
    LET total == passCount + failCount
        startAngle == Zero
        passFraction == Fraction(passCount, total)
        failFraction == Fraction(failCount, total)
    IN  << Sector(startAngle, FracAdd(startAngle, passFraction), "#073b0f"),
           Sector(FracAdd(startAngle, passFraction),
                  FracAdd(startAngle, FracAdd(passFraction, failFraction)),
                  "#8c1515") >>

\* The fills of one drawSimpleChart call; `present` says whether the page
\* has the resultsChart canvas.
DrawnFills(present, passCount, failCount) ==
    IF ~present THEN << >>
    ELSE IF passCount + failCount = 0 THEN << >>
    ELSE ChartFills(passCount, failCount)

\* What is left of a painted region once `fill` is painted over it.
Uncovered(region, fill) ==
    LET left == Sector(region.start, FracMin(region.end, fill.start),
                       region.fillStyle)
        right == Sector(FracMax(region.start, fill.end), region.end,
                        region.fillStyle)
    IN  (IF FracLess(left.start, left.end) THEN <<left>> ELSE << >>)
        \o (IF FracLess(right.start, right.end) THEN <<right>> ELSE << >>)

RECURSIVE UncoveredAll(_, _)
UncoveredAll(surface, fill) ==
    IF surface = << >> THEN << >>
    ELSE Uncovered(Head(surface), fill) \o UncoveredAll(Tail(surface), fill)

\* fill() on the canvas: the new sector hides what it covers; an arc of
\* zero length encloses nothing.
Paint(surface, fill) ==
    IF FracLess(fill.start, fill.end)
    THEN UncoveredAll(surface, fill) \o <<fill>>
    ELSE surface

RECURSIVE PaintAll(_, _)
PaintAll(surface, fills) ==
    IF fills = << >> THEN surface
    ELSE PaintAll(Paint(surface, Head(fills)), Tail(fills))

\* ----------------------------------------------------- recommendations

IsFail(finding) == finding.status = "FAIL"

FailedFindings(findings) == SelectSeq(findings, IsFail)

FallbackText(controlId) ==
    "No specific recommendation found for control " \o controlId
        \o ". Please review the control objective and evidence."

\* The <li> inserted for one failed finding.
ListItem(finding) ==
    LET controlId == finding.id
    IN  [strong |-> controlId \o ":",
         text |-> IF controlId \in DOMAIN RECOMMENDATIONS_MAP
                     /\ RECOMMENDATIONS_MAP[controlId] # ""
                  THEN RECOMMENDATIONS_MAP[controlId]
                  ELSE FallbackText(controlId)]

RecommendationItems_NoClear(list, findings) ==
    LET failedFindings == FailedFindings(findings)
    IN  list \o [i \in 1..Len(failedFindings) |-> ListItem(failedFindings[i])]

\* The recommendations list after a render: cleared and refilled when the
\* report has a failed finding, left as it was otherwise.
RecommendationItems(list, findings) ==
    LET failedFindings == FailedFindings(findings)
    IN  IF Len(failedFindings) > 0
        THEN [i \in 1..Len(failedFindings) |-> ListItem(failedFindings[i])]
        ELSE list

PlaceholderDisplay(findings) ==
    IF Len(FailedFindings(findings)) > 0 THEN "block" ELSE "none"

\* --------------------------------------------------------------- state

VARIABLES
    frameworkValue,         \* textContent of #framework-value
    passCount,              \* textContent of #pass-count
    failCount,              \* textContent of #fail-count
    totalCount,             \* textContent of #total-count
    statusValue,            \* the span inside #status-value
    filesCount,             \* textContent of #files-count
    pathValue,              \* textContent of #path-value
    integrityHash,          \* textContent of #integrity-hash
    tbody,                  \* the rows of #findings-tbody, in document order
    hasCanvas,              \* whether the page has the #resultsChart canvas
    canvas,                 \* the painted regions visible on the canvas
    recommendationsList,    \* the items of #recommendations-list
    recommendationsDisplay, \* style.display of the recommendations panel
    drawLog,                \* the fills of the latest drawSimpleChart call
    drawArgs,               \* the counts that call was given
    lastOp,                 \* the entry point that ran last
    lastReport,             \* the latest non-null payload rendered
    lastToggle,             \* the row of the button the latest toggle got
    clicks,                 \* per row: the toggleEvidence calls its button got
    allUnique               \* every payload rendered had unique finding ids

summary ==
    << frameworkValue, passCount, failCount, totalCount, statusValue,
       filesCount, pathValue, integrityHash >>

rendered ==
    << summary, tbody, canvas, recommendationsList, recommendationsDisplay >>

history ==
    << drawLog, drawArgs, lastOp, lastReport, lastToggle, clicks, allUnique >>

vars == << rendered, hasCanvas, history >>

UniqueIds(findings) ==
    \A i, j \in 1..Len(findings) : i # j => findings[i].id # findings[j].id

\* The page once the script has loaded: nothing rendered yet, no inline
\* display style set, the canvas present or not.
Init ==
    /\ frameworkValue = ""
    /\ passCount = << >>
    /\ failCount = << >>
    /\ totalCount = << >>
    /\ statusValue = [class |-> "", text |-> ""]
    /\ filesCount = << >>
    /\ pathValue = ""
    /\ integrityHash = ""
    /\ tbody = << >>
    /\ hasCanvas \in BOOLEAN
    /\ canvas = << >>
    /\ recommendationsList = << >>
    /\ recommendationsDisplay = ""
    /\ drawLog = << >>
    /\ drawArgs = <<0, 0>>
    /\ lastOp = "load"
    /\ lastReport = NoReport
    /\ lastToggle = 0
    /\ clicks = << >>
    /\ allUnique = TRUE

\* ------------------------------------------------------------- actions

AbortRender_HidePanel ==
    /\ recommendationsDisplay' = "none"
    /\ UNCHANGED << summary, tbody, canvas, recommendationsList >>

\* renderReport's `if (!data) { console.error(...); return; }`.
AbortRender ==
    UNCHANGED rendered

\* renderReport(data) past the guard.
RenderData(data) ==
    /\ Len(tbody) + Len(data.findings) <= MaxRows
    /\ frameworkValue' = StringOr(data.metadata.framework, "Loading...")
    /\ passCount' = PassCountText(data.stats)
    /\ failCount' = FailCountText(data.stats)
    /\ totalCount' = TotalCountText(data.stats)
    /\ statusValue' = StatusBadge(data.stats)
    /\ filesCount' = NumberOrZeroText(data.metadata.files_scanned)
    /\ pathValue' = StringOr(data.metadata.target_path, "Unknown")
    /\ integrityHash' = StringOr(data.metadata.integrity_hash, "N/A")
    /\ tbody' = AppendRows(tbody, data.findings)
    /\ drawLog' = DrawnFills(hasCanvas, data.stats.pass, data.stats.fail)
    /\ canvas' = PaintAll(canvas, drawLog')
    /\ recommendationsList' =
           RecommendationItems(recommendationsList, data.findings)
    /\ recommendationsDisplay' = PlaceholderDisplay(data.findings)
    /\ drawArgs' = <<data.stats.pass, data.stats.fail>>
    /\ lastReport' = data
    /\ clicks' = clicks \o [i \in 1..Len(data.findings) |-> 0]
    /\ allUnique' = (allUnique /\ UniqueIds(data.findings))

RenderReport(data) ==
    /\ IF data = Null
       THEN /\ AbortRender
            /\ UNCHANGED << drawLog, drawArgs, lastReport, clicks, allUnique >>
       ELSE RenderData(data)
    /\ lastOp' = IF data = Null THEN "renderReport(null)" ELSE "renderReport"
    /\ lastToggle' = 0
    /\ UNCHANGED hasCanvas

RECURSIVE Toggles(_)
Toggles(counts) ==
    IF counts = << >> THEN 0 ELSE Head(counts) + Toggles(Tail(counts))

HasButton(row) == row.actions[1].tag = "button"

\* document.getElementById among the table's elements: the first element
\* in document order with that id, as <<row, position in its actions cell>>.
GetElementById(rows, id) ==
    LET hits == { rm \in { <<r, m>> : r \in 1..Len(rows), m \in 1..2 } :
                    /\ rm[2] <= Len(rows[rm[1]].actions)
                    /\ rows[rm[1]].actions[rm[2]].id = id }
    IN  CHOOSE rm \in hits :
            \A other \in hits :
                \/ rm[1] < other[1]
                \/ rm[1] = other[1] /\ rm[2] <= other[2]

\* The branch of toggleEvidence on the block's current style.display.
ToggledDisplay(display) ==
    IF display = "none" \/ display = "" THEN "block" ELSE "none"

ToggledLabel(display) ==
    IF display = "none" \/ display = "" THEN "Hide Evidence"
                                        ELSE "Show Evidence"

\* toggleEvidence(button), the button being the one of row k.
ToggleEvidence(k) ==
    /\ k \in 1..Len(tbody)
    /\ HasButton(tbody[k])
    /\ Toggles(clicks) < MaxToggles
    /\ LET detailsId == tbody[k].actions[2].id
           at == GetElementById(tbody, detailsId)
           detailsDiv == tbody[at[1]].actions[at[2]]
       IN  tbody' =
             [r \in 1..Len(tbody) |->
                [tbody[r] EXCEPT !.actions =
                   [m \in 1..Len(tbody[r].actions) |->
                      LET el == tbody[r].actions[m]
                          shown == IF <<r, m>> = at
                                   THEN [el EXCEPT !.display =
                                           ToggledDisplay(detailsDiv.display)]
                                   ELSE el
                      IN  IF r = k /\ m = 1
                          THEN [shown EXCEPT !.text =
                                  ToggledLabel(detailsDiv.display)]
                          ELSE shown]]]
    /\ clicks' = [clicks EXCEPT ![k] = @ + 1]
    /\ lastOp' = "toggleEvidence"
    /\ lastToggle' = k
    /\ UNCHANGED << summary, canvas, recommendationsList,
                    recommendationsDisplay, hasCanvas, drawLog, drawArgs,
                    lastReport, allUnique >>

\* drawSimpleChart(passCount, failCount) called from the page.
DrawSimpleChart(pass, fail) ==
    /\ drawLog' = DrawnFills(hasCanvas, pass, fail)
    /\ canvas' = PaintAll(canvas, drawLog')
    /\ drawArgs' = <<pass, fail>>
    /\ lastOp' = "drawSimpleChart"
    /\ lastToggle' = 0
    /\ UNCHANGED << summary, tbody, recommendationsList,
                    recommendationsDisplay, hasCanvas, lastReport, clicks,
                    allUnique >>

\* The page's calls: payloads drawn from `payloads`, clicks on the buttons
\* of the rows in `rows`, direct chart calls with counts from `counts`.
Calls(payloads, rows, counts) ==
    \/ \E data \in payloads : RenderReport(data)
    \/ \E k \in rows : ToggleEvidence(k)
    \/ \E pass, fail \in counts : DrawSimpleChart(pass, fail)

\* Scanner reports of every findings sequence, clicks on every button.
Next == Calls(ScannerReports \cup {Null}, 1..MaxRows, {1})

Spec == Init /\ [][Next]_vars

\* Reports and direct chart calls of every pair of counts, clicks on the
\* first row's button.
NextStats == Calls(FreeReports \cup {Null}, {1}, 0..MaxCount)

SpecStats == Init /\ [][NextStats]_vars

\* --------------------------------------------------------------- claims

\* The rows of the latest report: the last Len(findings) rows of the table.
LatestRow(i) == Len(tbody) - Len(lastReport.findings) + i

\* C1: after a renderReport call with a non-null report the table body holds
\* exactly one row per finding of that report, in the report's order; rows
\* of earlier calls do not accumulate.
C1_TableHoldsLatestFindings ==
    lastOp = "renderReport" =>
        /\ Len(tbody) = Len(lastReport.findings)
        /\ \A i \in 1..Len(tbody) :
             /\ tbody[i].id = lastReport.findings[i].id
             /\ tbody[i].statusText = lastReport.findings[i].status

\* C2: renderReport with a null or undefined report leaves every summary
\* field, the table rows, the chart surface, the recommendations list and
\* the panel's visibility as they were.
C2_NullRenderChangesNothing ==
    [][lastOp' = "renderReport(null)" => UNCHANGED rendered]_vars

C2_Witness ==
    /\ lastOp = "renderReport(null)"
    /\ tbody # << >>
    /\ recommendationsDisplay = "block"
    /\ canvas # << >>
    /\ \E k \in 1..Len(tbody) : clicks[k] = 1

\* C3: for every FAIL finding of a rendered report with unique ids, the
\* evidence block is hidden with label "Show Evidence" after an even number
\* (zero included) of toggles of its button, and visible with label
\* "Hide Evidence" after an odd number.
C3_ToggleParity ==
    allUnique =>
        \A i \in 1..Len(lastReport.findings) :
            LET k == LatestRow(i)
            IN  lastReport.findings[i].status = "FAIL" =>
                    IF clicks[k] % 2 = 1
                    THEN /\ tbody[k].actions[2].display = "block"
                         /\ tbody[k].actions[1].text = "Hide Evidence"
                    ELSE /\ tbody[k].actions[2].display \in {"", "none"}
                         /\ tbody[k].actions[1].text = "Show Evidence"

RECURSIVE FailIdsOf(_)
FailIdsOf(findings) ==
    IF findings = << >> THEN << >>
    ELSE (IF Head(findings).status = "FAIL" THEN <<Head(findings).id>>
                                            ELSE << >>)
         \o FailIdsOf(Tail(findings))

ExpectedRecommendation(id) ==
    IF id = "CC1.5"
    THEN "Your latest commit is unsigned. To fix this: 1. gpg --full-generate-key 2. git config --global commit.gpgsign true 3. git commit --amend --no-edit -S"
    ELSE "No specific recommendation found for control " \o id
            \o ". Please review the control objective and evidence."

\* C4: after a renderReport call with a non-null report the panel is hidden
\* iff the report has no FAIL finding; when visible, the list holds one item
\* per FAIL finding, in source order, with the catalog text of the id or the
\* fallback text naming it.
C4_RecommendationsMatchFailures ==
    lastOp = "renderReport" =>
        LET failIds == FailIdsOf(lastReport.findings)
        IN  /\ recommendationsDisplay \in {"none", "block"}
            /\ recommendationsDisplay = "none" <=> failIds = << >>
            /\ recommendationsDisplay = "block" =>
                 /\ Len(recommendationsList) = Len(failIds)
                 /\ \A j \in 1..Len(failIds) :
                      /\ recommendationsList[j].strong = failIds[j] \o ":"
                      /\ recommendationsList[j].text =
                             ExpectedRecommendation(failIds[j])

C4_Witness ==
    /\ lastOp = "renderReport"
    /\ recommendationsDisplay = "block"
    /\ Len(recommendationsList) = 2
    /\ recommendationsList[1].strong = "CC6.1:"
    /\ recommendationsList[2].strong = "CC1.5:"

\* C5: after renderReport with a non-null report the status badge reads FAIL
\* iff stats.fail > 0 and PASS otherwise, with class status-fail or
\* status-pass matching the text, whatever the findings are.
C5_BadgeFollowsFailCount ==
    lastOp = "renderReport" =>
        /\ statusValue.text = "FAIL" <=> lastReport.stats.fail > 0
        /\ statusValue.text = "PASS" <=> ~(lastReport.stats.fail > 0)
        /\ statusValue.text = "FAIL" => statusValue.class = "status-fail"
        /\ statusValue.text = "PASS" => statusValue.class = "status-pass"

C5_Witness ==
    /\ lastOp = "renderReport"
    /\ lastReport.stats.fail = 0
    /\ \E i \in 1..Len(lastReport.findings) :
           lastReport.findings[i].status = "FAIL"
    /\ statusValue = [class |-> "status-pass", text |-> "PASS"]

\* The chart of a pair of counts: nothing for a zero total, else the pass
\* sector from 0 and the fail sector up to the full revolution, as far as
\* each has a positive span.
ExpectedChart(stats) ==
    LET total == stats.pass + stats.fail
        split == Fraction(stats.pass, total)
    IN  IF total = 0 THEN << >>
        ELSE (IF stats.pass > 0
              THEN <<Sector(<<0, 1>>, split, "#073b0f")>> ELSE << >>)
             \o (IF stats.fail > 0
                 THEN <<Sector(split, <<1, 1>>, "#8c1515")>> ELSE << >>)

\* C6: after every renderReport call the chart surface shows exactly the
\* chart of the most recent report's stats; a report with total 0 leaves no
\* sector of an earlier report on the surface.
C6_SurfaceShowsLatestChart ==
    (lastOp = "renderReport" /\ hasCanvas) =>
        canvas = ExpectedChart(lastReport.stats)

\* C7: a row's actions cell holds a toggle immediately followed by an
\* evidence block with id details-<id> iff the finding's status is FAIL; a
\* PASS finding's row holds the N/A marker and neither of the two.
C7_EvidenceBlockIffFail ==
    /\ \A k \in 1..Len(tbody) :
         LET cell == tbody[k].actions
             hasPair == /\ Len(cell) >= 2
                        /\ cell[1].tag = "button"
                        /\ cell[2].tag = "div"
                        /\ cell[2].id = (IF tbody[k].id = "CC1.5"
                                         THEN "details-CC1.5"
                                         ELSE "details-CC6.1")
         IN  /\ hasPair <=> tbody[k].statusText = "FAIL"
             /\ tbody[k].statusText = "PASS" =>
                  /\ Len(cell) = 1
                  /\ cell[1].tag = "span"
                  /\ cell[1].text = "N/A"
    /\ \A i \in 1..Len(lastReport.findings) :
         tbody[LatestRow(i)].statusText = lastReport.findings[i].status

C7_Witness ==
    /\ lastOp = "renderReport"
    /\ Len(tbody) = 2
    /\ tbody[1].statusText = "PASS"
    /\ tbody[2].statusText = "FAIL"

\* C8: drawSimpleChart makes no fill when the surface is absent or the
\* counts sum to 0; otherwise it fills exactly two sectors, the pass sector
\* from angle 0 spanning passCount / total of a revolution, the fail sector
\* from the end of the pass sector to exactly one revolution.
C8_TwoSectorsOrNothing ==
    LET total == drawArgs[1] + drawArgs[2]
    IN  IF ~hasCanvas \/ total = 0
        THEN drawLog = << >>
        ELSE /\ Len(drawLog) = 2
             /\ drawLog[1].start = <<0, 1>>
             /\ drawLog[1].end[1] * total = drawArgs[1] * drawLog[1].end[2]
             /\ drawLog[2].start = drawLog[1].end
             /\ drawLog[2].end = <<1, 1>>

C8_Witness ==
    /\ lastOp = "drawSimpleChart"
    /\ hasCanvas
    /\ drawArgs = <<2, 1>>
    /\ Len(drawLog) = 2
    /\ drawLog[1].end = <<2, 3>>

DigitValue(c) == CHOOSE d \in 0..9 : Digit[d] = c

RECURSIVE ParseDecimal(_)
ParseDecimal(text) ==
    IF Len(text) = 1 THEN DigitValue(text[1])
    ELSE 10 * ParseDecimal(SubSeq(text, 1, Len(text) - 1))
         + DigitValue(text[Len(text)])

IsDecimalText(text) ==
    /\ Len(text) >= 1
    /\ \A i \in 1..Len(text) : \E d \in 0..9 : Digit[d] = text[i]
    /\ Len(text) > 1 => text[1] # "0"

\* C9: after renderReport the total-count field shows the decimal text of
\* stats.pass + stats.fail, "0" when both counts are zero.
C9_TotalIsDecimalSum ==
    lastOp = "renderReport" =>
        /\ IsDecimalText(totalCount)
        /\ ParseDecimal(totalCount)
               = lastReport.stats.pass + lastReport.stats.fail

C9_Witness ==
    /\ lastOp = "renderReport"
    /\ lastReport.stats = [pass |-> 0, fail |-> 0]
    /\ totalCount = <<"0">>

\* C10: after any sequence of renderReport calls with unique ids in each
\* report, toggleEvidence(button) flips the visibility of the block that is
\* the button's next sibling and leaves every other block's visibility and
\* every other toggle's label unchanged.
C10_ToggleFlipsOnlyItsSibling ==
    [][(lastOp' = "toggleEvidence" /\ allUnique) =>
         LET k == lastToggle'
         IN  /\ (tbody'[k].actions[2].display = "block")
                    # (tbody[k].actions[2].display = "block")
             /\ \A r \in 1..Len(tbody) :
                  (r # k /\ HasButton(tbody[r])) =>
                      /\ tbody'[r].actions[2].display
                             = tbody[r].actions[2].display
                      /\ tbody'[r].actions[1].text
                             = tbody[r].actions[1].text]_vars

====
